---- MODULE Spec2Model ----
(***************************************************************************)
(* A model of tici, a per-directory tmux session saver / restorer.         *)
(*                                                                         *)
(* Text is modelled as sequences of one-character strings, so that the     *)
(* formatting done by save.rs and the splitting / trimming / parsing done  *)
(* by restore.rs are computed character by character.  A file is the       *)
(* sequence of its lines (no field of the model contains a line feed).     *)
(***************************************************************************)
EXTENDS Integers, Sequences, FiniteSets, TLC

(***************************************************************************)
(* Bounds of the model.                                                    *)
(***************************************************************************)
\* at most this many injected failures of child processes per invocation
MaxFaults == 1

(***************************************************************************)
(* Text primitives (Rust's std::str as used by the program).               *)
(***************************************************************************)
\* Option values: None is the empty sequence, Some(x) the one-element <<x>>
None == <<>>

Some(x) == <<x>>

Digits == <<"0", "1", "2", "3", "4", "5", "6", "7", "8", "9">>

IsDigit(c) == \E i \in 1..10 : Digits[i] = c

DigitVal(c) == (CHOOSE i \in 1..10 : Digits[i] = c) - 1

\* u32::MAX = 4294967295 = 10 * U32MaxDiv10 + U32MaxMod10
U32MaxDiv10 == 429496729

U32MaxMod10 == 5

\* format!("{}", n) for an unsigned integer
RECURSIVE Display(_)
Display(n) ==
    IF n < 10 THEN <<Digits[n + 1]>>
    ELSE Display(n \div 10) \o <<Digits[(n % 10) + 1]>>

RECURSIVE DigitsValue(_, _)
DigitsValue(s, acc) ==
    IF s = <<>> THEN Some(acc)
    ELSE IF ~IsDigit(Head(s)) THEN None
    ELSE LET d == DigitVal(Head(s))
         IN  IF acc > U32MaxDiv10 \/ (acc = U32MaxDiv10 /\ d > U32MaxMod10)
             THEN None
             ELSE DigitsValue(Tail(s), acc * 10 + d)

\* str::parse::<u32>(): None for an empty string, a non-digit, an overflow;
\* one leading '+' is accepted
ParseU32(s) ==
    LET body == IF s # <<>> /\ Head(s) = "+" THEN Tail(s) ELSE s
    IN  IF body = <<>> THEN None ELSE DigitsValue(body, 0)

\* str::starts_with
StartsWith(s, prefix) ==
    /\ Len(s) >= Len(prefix)
    /\ SubSeq(s, 1, Len(prefix)) = prefix

Drop(s, n) == SubSeq(s, n + 1, Len(s))

\* str::trim_start_matches(prefix): removes the prefix repeatedly
RECURSIVE TrimStartMatches(_, _)
TrimStartMatches(s, prefix) ==
    IF prefix # <<>> /\ StartsWith(s, prefix)
    THEN TrimStartMatches(Drop(s, Len(prefix)), prefix)
    ELSE s

\* str::trim_end_matches(c) for a one-character pattern
RECURSIVE TrimEndMatches(_, _)
TrimEndMatches(s, c) ==
    IF s # <<>> /\ s[Len(s)] = c
    THEN TrimEndMatches(SubSeq(s, 1, Len(s) - 1), c)
    ELSE s

\* position of the first occurrence of character c in s, 0 if there is none
RECURSIVE FindFrom(_, _, _)
FindFrom(s, c, i) ==
    IF i > Len(s) THEN 0
    ELSE IF s[i] = c THEN i
    ELSE FindFrom(s, c, i + 1)

Find(s, c) == FindFrom(s, c, 1)

\* str::split(c): every piece, empty ones included
RECURSIVE Split(_, _)
Split(s, c) ==
    LET i == Find(s, c)
    IN  IF i = 0 THEN <<s>>
        ELSE <<SubSeq(s, 1, i - 1)>> \o Split(Drop(s, i), c)

\* str::splitn(n, c): at most n pieces, the last one holding the rest
RECURSIVE SplitN(_, _, _)
SplitN(s, n, c) ==
    LET i == Find(s, c)
    IN  IF n = 0 THEN <<>>
        ELSE IF n = 1 \/ i = 0 THEN <<s>>
        ELSE <<SubSeq(s, 1, i - 1)>> \o SplitN(Drop(s, i), n - 1, c)

IsWhitespace(c) == c \in {" ", "\t"}

\* str::split_whitespace(): the maximal runs of non-whitespace characters
RECURSIVE SplitWhitespaceFrom(_, _, _)
SplitWhitespaceFrom(s, i, word) ==
    IF i > Len(s) THEN (IF word = <<>> THEN <<>> ELSE <<word>>)
    ELSE IF IsWhitespace(s[i])
         THEN (IF word = <<>> THEN <<>> ELSE <<word>>)
              \o SplitWhitespaceFrom(s, i + 1, <<>>)
         ELSE SplitWhitespaceFrom(s, i + 1, Append(word, s[i]))

SplitWhitespace(s) == SplitWhitespaceFrom(s, 1, <<>>)

\* str::split_once(c): None, or the pair <<before, after>>
SplitOnce(s, c) ==
    LET i == Find(s, c)
    IN  IF i = 0 THEN None
        ELSE <<SubSeq(s, 1, i - 1), Drop(s, i)>>

\* Option::unwrap_or
UnwrapOr(opt, default) == IF opt = None THEN default ELSE opt[1]

\* the pieces joined by the separator sep
RECURSIVE Join(_, _)
Join(ss, sep) ==
    IF ss = <<>> THEN <<>>
    ELSE IF Len(ss) = 1 THEN ss[1]
    ELSE ss[1] \o sep \o Join(Tail(ss), sep)

Flag(b) == IF b THEN <<"1">> ELSE <<"0">>

(***************************************************************************)
(* The save file format.                                                   *)
(*   save.rs writes    # Window: <session>:<index> (<name>) <0|1> <layout> *)
(*                     # Pane: <index> <0|1> <title> <path> <cmd> <pid> <history> *)
(*   restore.rs parses the same lines.                                     *)
(* A Window is [session_name, index, name, active, layout, panes], a Pane  *)
(* [index, title, current_path, active, current_command, pid,              *)
(* history_size] (restore.rs's Pane.content is always the empty string and *)
(* is left out).                                                           *)
(***************************************************************************)
WindowTag == <<"#", " ", "W", "i", "n", "d", "o", "w", ":", " ">>

PaneTag == <<"#", " ", "P", "a", "n", "e", ":", " ">>

\* save.rs: the window record line
WindowLine(w) ==
    WindowTag \o w.session_name \o <<":">> \o Display(w.index)
        \o <<" ", "(">> \o w.name \o <<")", " ">> \o Flag(w.active)
        \o <<" ">> \o w.layout

\* save.rs: the pane record line
PaneLine(p) ==
    PaneTag \o Display(p.index) \o <<" ">> \o Flag(p.active) \o <<" ">>
        \o p.title \o <<" ">> \o p.current_path \o <<" ">>
        \o p.current_command \o <<" ">> \o Display(p.pid) \o <<" ">>
        \o Display(p.history_size)

\* restore.rs Window::from_line: None, or Some(window) with no panes yet
from_line(line0) ==
    LET line  == TrimStartMatches(line0, WindowTag)
        parts == SplitWhitespace(line)
    IN  IF Len(parts) < 1 THEN None
        ELSE LET session_index == SplitOnce(parts[1], ":")
             IN  IF session_index = None THEN None
                 ELSE IF Len(parts) < 4 THEN None
                 ELSE LET index == ParseU32(session_index[2])
                      IN  IF index = None THEN None
                          ELSE Some([session_name |-> session_index[1],
                                     index        |-> index[1],
                                     name         |-> TrimEndMatches(
                                                        TrimStartMatches(parts[2], <<"(">>),
                                                        ")"),
                                     active       |-> parts[3] = <<"1">>,
                                     layout       |-> parts[4],
                                     panes        |-> <<>>])

\* restore.rs: one "# Pane: " line; None unless it splits into seven pieces
ParsePane(pane_line) ==
    LET pane_data == Drop(pane_line, Len(PaneTag))
        splits    == SplitN(pane_data, 7, " ")
    IN  IF Len(splits) < 7 THEN None
        ELSE Some([index           |-> UnwrapOr(ParseU32(splits[1]), 0),
                   active          |-> splits[2] = <<"1">>,
                   title           |-> splits[3],
                   current_path    |-> splits[4],
                   current_command |-> splits[5],
                   pid             |-> UnwrapOr(ParseU32(splits[6]), 0),
                   history_size    |-> UnwrapOr(ParseU32(splits[7]), 0)])

\* restore.rs: the inner loop, from line i: the panes up to the next window
\* line (or the end of the file) and the position of that line
RECURSIVE CollectPanes(_, _, _)
CollectPanes(lines, i, panes) ==
    IF i > Len(lines) \/ StartsWith(lines[i], WindowTag)
    THEN [panes |-> panes, next |-> i]
    ELSE IF StartsWith(lines[i], PaneTag)
    THEN CollectPanes(lines, i + 1, panes \o ParsePane(lines[i]))
    ELSE CollectPanes(lines, i + 1, panes)

\* restore.rs: the outer loop over the lines of the file
RECURSIVE ParseLines(_, _, _)
ParseLines(lines, i, windows) ==
    IF i > Len(lines) THEN windows
    ELSE IF StartsWith(lines[i], WindowTag)
    THEN LET w == from_line(lines[i])
         IN  IF w # None
             THEN LET c == CollectPanes(lines, i + 1, <<>>)
                  IN  ParseLines(lines, c.next,
                                 Append(windows, [w[1] EXCEPT !.panes = c.panes]))
             ELSE ParseLines(lines, i + 1, windows)
    ELSE ParseLines(lines, i + 1, windows)

ParseWindows(lines) == ParseLines(lines, 1, <<>>)

(***************************************************************************)
(* The multiplexer, as the program sees it through its child processes.    *)
(* A server state is [sessions, recent]: sessions maps each session name   *)
(* to its windows in index order, a live window being [index, name,        *)
(* active, layout, panes]; recent is the most recently attached session.   *)
(* A command is [op, t, a]: the operation, its -t / -s argument and its    *)
(* -n / -c / layout argument.                                              *)
(***************************************************************************)
Host == <<"h", "o", "s", "t">>

Shell == <<"z", "s", "h">>

\* the layout the multiplexer gives a window of n panes on its own
AutoLayout(n) == <<"A">> \o Display(n)

NewPane(i, path) ==
    [index |-> i, title |-> Host, current_path |-> path, active |-> TRUE,
     current_command |-> Shell, pid |-> 100 + i, history_size |-> 0]

NewWindow(i, name, path) ==
    [index |-> i, name |-> name, active |-> TRUE, layout |-> AutoLayout(1),
     panes |-> <<NewPane(0, path)>>]

\* session:window.pane, as the multiplexer splits a target
ParseTarget(t) ==
    LET sw == SplitOnce(t, ":")
    IN  IF sw = None
        THEN [session |-> t, window |-> None, pane |-> None]
        ELSE LET wp == SplitOnce(sw[2], ".")
             IN  IF wp = None
                 THEN [session |-> sw[1], window |-> ParseU32(sw[2]), pane |-> None]
                 ELSE [session |-> sw[1], window |-> ParseU32(wp[1]),
                       pane |-> ParseU32(wp[2])]

HasSession(st, s) == s \in DOMAIN st.sessions

\* position of window index i in session s, 0 if there is none
WindowPos(st, s, i) ==
    IF ~HasSession(st, s) \/ i = None THEN 0
    ELSE LET ws == st.sessions[s]
         IN  IF \E k \in 1..Len(ws) : ws[k].index = i[1]
             THEN CHOOSE k \in 1..Len(ws) : ws[k].index = i[1]
             ELSE 0

PanePos(w, j) ==
    IF j = None THEN 0
    ELSE IF \E k \in 1..Len(w.panes) : w.panes[k].index = j[1]
         THEN CHOOSE k \in 1..Len(w.panes) : w.panes[k].index = j[1]
         ELSE 0

WithSession(st, s, ws) ==
    [st EXCEPT !.sessions =
        [x \in DOMAIN st.sessions \cup {s} |-> IF x = s THEN ws ELSE st.sessions[x]]]

Deactivated(xs) == [k \in 1..Len(xs) |-> [xs[k] EXCEPT !.active = FALSE]]

\* the windows ws with w inserted in index order
InsertWindow(ws, w) ==
    LET before == SelectSeq(ws, LAMBDA x : x.index < w.index)
        after  == SelectSeq(ws, LAMBDA x : x.index > w.index)
    IN  before \o <<w>> \o after

Failed(st) == [ok |-> FALSE, st |-> st, out |-> <<>>]

Done(st) == [ok |-> TRUE, st |-> st, out |-> <<>>]

\* list-windows -F "window\t#{session_name}\t#{window_index}\t:#{window_name}
\*                  \t#{window_active}\t#{window_layout}"
ListWindowsLine(s, w) ==
    Join(<<<<"w", "i", "n", "d", "o", "w">>, s, Display(w.index),
           <<":">> \o w.name, Flag(w.active), w.layout>>, <<"\t">>)

\* list-panes -F "pane\t#{session_name}\t#{window_index}\t#{window_active}
\*    \t:#{window_flags}\t#{pane_index}\t#{pane_title}\t:#{pane_current_path}
\*    \t#{pane_active}\t#{pane_current_command}\t#{pane_pid}\t#{history_size}"
ListPanesLine(s, w, p) ==
    Join(<<<<"p", "a", "n", "e">>, s, Display(w.index), Flag(w.active),
           <<":">> \o (IF w.active THEN <<"*">> ELSE <<>>), Display(p.index),
           p.title, <<":">> \o p.current_path, Flag(p.active),
           p.current_command, Display(p.pid), Display(p.history_size)>>, <<"\t">>)

\* the session a command without -t addresses: the one of the pane the tool
\* runs in when inside the multiplexer, the most recent one otherwise
CurrentSession(st, inside) == IF inside # None THEN inside ELSE st.recent

\* what the multiplexer does with one command whose target tg names the
\* window at position k of its session (0: no such window)
TmuxOn(cmd, tg, k, st, inside, cwd) ==
    CASE cmd.op = "has-session" ->
           IF HasSession(st, cmd.t) THEN Done(st) ELSE Failed(st)
      [] cmd.op = "new-session" ->
           IF HasSession(st, cmd.t) THEN Failed(st)
           ELSE Done(WithSession(st, cmd.t,
                    <<NewWindow(0, IF cmd.a = <<>> THEN Shell ELSE cmd.a, cwd)>>))
      [] cmd.op = "new-window" ->
           IF ~HasSession(st, tg.session) \/ tg.window = None \/ k # 0 THEN Failed(st)
           ELSE Done(WithSession(st, tg.session,
                    InsertWindow(Deactivated(st.sessions[tg.session]),
                                 NewWindow(tg.window[1], cmd.a, cwd))))
      [] cmd.op = "kill-window" ->
           IF k = 0 THEN Failed(st)
           ELSE IF Len(st.sessions[tg.session]) = 1
           THEN Done([st EXCEPT !.sessions =
                        [x \in DOMAIN st.sessions \ {tg.session} |-> st.sessions[x]]])
           ELSE Done(WithSession(st, tg.session,
                        SelectSeq(st.sessions[tg.session],
                                  LAMBDA x : x.index # tg.window[1])))
      [] cmd.op = "split-window" ->
           IF k = 0 THEN Failed(st)
           ELSE Done(WithSession(st, tg.session,
                  [st.sessions[tg.session] EXCEPT
                     ![k].panes = Append(Deactivated(@), NewPane(Len(@), cmd.a)),
                     ![k].layout = AutoLayout(Len(st.sessions[tg.session][k].panes) + 1)]))
      [] cmd.op = "select-layout" ->
           IF k = 0 THEN Failed(st)
           ELSE Done(WithSession(st, tg.session,
                       [st.sessions[tg.session] EXCEPT ![k].layout = cmd.a]))
      [] cmd.op = "select-pane" ->
           IF k = 0 \/ PanePos(st.sessions[tg.session][k], tg.pane) = 0 THEN Failed(st)
           ELSE Done(WithSession(st, tg.session,
                       [st.sessions[tg.session] EXCEPT ![k].panes =
                           [Deactivated(@) EXCEPT
                              ![PanePos(st.sessions[tg.session][k], tg.pane)].active = TRUE]]))
      [] cmd.op = "select-window" ->
           IF k = 0 THEN Failed(st)
           ELSE Done(WithSession(st, tg.session,
                       [Deactivated(st.sessions[tg.session]) EXCEPT ![k].active = TRUE]))
      [] cmd.op \in {"switch-client", "attach-session"} ->
           IF HasSession(st, cmd.t)
           THEN Done([st EXCEPT !.recent = Some(cmd.t)])
           ELSE Failed(st)
      [] cmd.op = "list-windows" ->
           IF CurrentSession(st, inside) = None
              \/ ~HasSession(st, UnwrapOr(CurrentSession(st, inside), <<>>))
           THEN Failed(st)
           ELSE [ok |-> TRUE, st |-> st,
                 out |-> [i \in 1..Len(st.sessions[CurrentSession(st, inside)[1]]) |->
                             ListWindowsLine(CurrentSession(st, inside)[1],
                                 st.sessions[CurrentSession(st, inside)[1]][i])]]
      [] cmd.op = "list-panes" ->
           IF k = 0 THEN Failed(st)
           ELSE [ok |-> TRUE, st |-> st,
                 out |-> [i \in 1..Len(st.sessions[tg.session][k].panes) |->
                             ListPanesLine(tg.session, st.sessions[tg.session][k],
                                           st.sessions[tg.session][k].panes[i])]]
      [] cmd.op = "capture-pane" ->
           IF k = 0 \/ PanePos(st.sessions[tg.session][k], tg.pane) = 0
           THEN Failed(st)
           ELSE Done(st)

TmuxAt(cmd, tg, st, inside, cwd) ==
    TmuxOn(cmd, tg, WindowPos(st, tg.session, tg.window), st, inside, cwd)

\* what the multiplexer does with one command
TmuxExec(cmd, st, inside, cwd) == TmuxAt(cmd, ParseTarget(cmd.t), st, inside, cwd)

(***************************************************************************)
(* The program state.                                                      *)
(***************************************************************************)
VARIABLES
    verb,            \* cli.command: "save", "restore" or "default" (None)
    dry_run,         \* cli.dry_run
    TMUX,            \* the session of the pane the tool runs in, None outside
    session_name,    \* get_session_info: the directory's basename
    dir,             \* get_session_info: the directory
    file,            \* the file at save_path: [exists, readable, lines]
    writes,          \* how many times the invocation has written save_path
    tmux,            \* the multiplexer server
    tmux0,           \* the multiplexer server as the invocation found it
    pc,              \* the statement the invocation is at
    windows,         \* restore.rs: the parsed windows
    wi,              \* restore.rs: position in windows
    pi,              \* restore.rs: position in the window's panes
    restore_result,  \* what restore_tmux_session returned
    session_info,    \* save.rs: the lines list-windows printed
    li,              \* save.rs: position in session_info
    content,         \* save.rs: the lines to write
    window,          \* save.rs: the window being saved
    pane_list,       \* save.rs: the usable lines list-panes printed
    pj,              \* save.rs: position in pane_list
    calls,           \* every child process started so far, in order
    faults,          \* the injected child failures so far
    result,          \* "running", then what main returned
    observed         \* what a restore in another process found at save_path

invocation == <<verb, dry_run, TMUX, session_name, dir, tmux0>>

restoring == <<windows, wi, pi>>

saving == <<session_info, li, content, window, pane_list, pj>>

vars == <<verb, dry_run, TMUX, session_name, dir, file, writes, tmux, tmux0, pc, windows, wi,
          pi, restore_result, session_info, li, content, window, pane_list,
          pj, calls, faults, result, observed>>

Cmd(op, t, a) == [op |-> op, t |-> t, a |-> a]

\* std::process::Command: the ways one child can end.  launched = FALSE is a
\* child that could not be started (the only case .output() / .spawn() report
\* as Err); success is its exit status.
ChildrenOf(r) ==
    {[launched |-> TRUE, success |-> r.ok, st |-> r.st, out |-> r.out, fault |-> 0]}
    \cup (IF faults < MaxFaults
          THEN {[launched |-> FALSE, success |-> FALSE, st |-> tmux,
                 out |-> <<>>, fault |-> 1]}
               \cup (IF r.ok
                     THEN {[launched |-> TRUE, success |-> FALSE, st |-> tmux,
                            out |-> <<>>, fault |-> 1]}
                     ELSE {})
          ELSE {})

Children(cmd) == ChildrenOf(TmuxExec(cmd, tmux, TMUX, dir))

\* the child o of command cmd has run, started by the function `by`
Ran(cmd, by, o) ==
    /\ calls' = Append(calls, [op |-> cmd.op, t |-> cmd.t, a |-> cmd.a, by |-> by,
                               launched |-> o.launched, success |-> o.success])
    /\ tmux' = o.st
    /\ faults' = faults + o.fault

Goto(pos) == /\ pc' = pos.pc /\ wi' = pos.wi /\ pi' = pos.pi

At(p, i, j) == [pc |-> p, wi |-> i, pi |-> j]

\* main returns r
Exit(r) == /\ pc' = "done" /\ result' = r

is_inside_tmux == TMUX # None

WindowTarget(s, index) == s \o <<":">> \o Display(index)

PaneTarget(s, index, pane) == WindowTarget(s, index) \o <<".">> \o Display(pane)

(***************************************************************************)
(* main.rs                                                                 *)
(***************************************************************************)
\* main: the match on cli.command, up to the first call that runs a child
main ==
    /\ pc = "main"
    /\ IF verb = "save" /\ dry_run
       THEN Exit("ok")
       ELSE /\ pc' = CASE verb = "save" -> "save_list_windows"
                       [] verb = "restore" -> "restore_read"
                       [] verb = "default" /\ dry_run -> "restore_read"
                       [] OTHER -> "session_exists"
            /\ UNCHANGED result
    /\ UNCHANGED <<invocation, observed, file, writes, tmux, restoring, restore_result, saving,
                   calls, faults>>

\* a main that creates the session whatever has-session answered
AfterSessionExists_AlwaysCreate(found) == "new_session"

\* main, lines 63-70: switch to the session if it exists, create it if not
AfterSessionExists(found) == IF found THEN "switch_existing" ELSE "new_session"

\* tmux.rs session_exists, and main's branch on it
session_exists ==
    /\ pc = "session_exists"
    /\ \E o \in Children(Cmd("has-session", session_name, <<>>)) :
          /\ Ran(Cmd("has-session", session_name, <<>>), "session_exists", o)
          /\ IF ~o.launched THEN Exit("SpawnFailed")
             ELSE /\ pc' = AfterSessionExists(o.success)
                  /\ UNCHANGED result
    /\ UNCHANGED <<invocation, observed, file, writes, restoring, restore_result, saving>>

\* tmux.rs new_tmux_session, detached as main calls it: the exit status of
\* the child is not looked at
new_tmux_session ==
    /\ pc = "new_session"
    /\ \E o \in Children(Cmd("new-session", session_name, <<>>)) :
          /\ Ran(Cmd("new-session", session_name, <<>>), "new_tmux_session", o)
          /\ IF ~o.launched THEN Exit("SpawnFailed")
             ELSE /\ pc' = "restore_read"
                  /\ UNCHANGED result
    /\ UNCHANGED <<invocation, observed, file, writes, restoring, restore_result, saving>>

SwitchCmd ==
    Cmd(IF is_inside_tmux THEN "switch-client" ELSE "attach-session",
        session_name, <<>>)

\* tmux.rs switch_to_session, at each of main's three call sites:
\*   switch_existing  the session exists: switch and return
\*   switch_restored  the argument of restore(..).and(..): evaluated whatever
\*                    restore returned, and its value used only if restore
\*                    returned Ok
\*   switch_created   after the swallowed restore: then save
switch_to_session ==
    /\ pc \in {"switch_existing", "switch_restored", "switch_created"}
    /\ \E o \in Children(SwitchCmd) :
          LET r == IF ~o.launched THEN "SpawnFailed"
                   ELSE IF ~o.success THEN "SwitchFailed"
                   ELSE "ok"
          IN  /\ Ran(SwitchCmd, "switch_to_session", o)
              /\ CASE pc = "switch_existing" -> Exit(r)
                   [] pc = "switch_restored" ->
                        Exit(IF restore_result # "ok" THEN restore_result ELSE r)
                   [] pc = "switch_created" ->
                        IF r # "ok" THEN Exit(r)
                        ELSE /\ pc' = "save_list_windows"
                             /\ UNCHANGED result
    /\ UNCHANGED <<invocation, observed, file, writes, restoring, restore_result, saving>>

(***************************************************************************)
(* restore.rs restore_tmux_session                                         *)
(***************************************************************************)
\* a main that swallows NoSavedSession only and propagates any other error
\* of restore with ?
ReturnFromRestore_OnlyNoSavedSession(r) ==
    /\ restore_result' = r
    /\ IF (verb = "default" /\ dry_run) \/ r \notin {"ok", "NoSavedSession"}
       THEN Exit(r)
       ELSE /\ pc' = IF verb = "restore" THEN "switch_restored" ELSE "switch_created"
            /\ UNCHANGED result

\* restore_tmux_session returns r to main: the default verb's dry run
\* propagates it and returns; the restore verb goes on to evaluate the
\* argument of .and(); the default verb drops it (let _ =) and goes on
ReturnFromRestore(r) ==
    /\ restore_result' = r
    /\ IF verb = "default" /\ dry_run
       THEN Exit(r)
       ELSE /\ pc' = IF verb = "restore" THEN "switch_restored" ELSE "switch_created"
            /\ UNCHANGED result

\* the session restore addresses: the one named in the first window record
first_window == windows[1]

RestoreSession == first_window.session_name

\* position of the first active pane of w at or after j, 0 if there is none
ActivePaneFrom(w, j) ==
    IF \E k \in j..Len(w.panes) : w.panes[k].active
    THEN CHOOSE k \in j..Len(w.panes) :
            /\ w.panes[k].active
            /\ \A m \in j..(k - 1) : ~w.panes[m].active
    ELSE 0

\* a restore that selects the last window marked active
ActiveWindow_Last(ws) ==
    IF \E k \in 1..Len(ws) : ws[k].active
    THEN CHOOSE k \in 1..Len(ws) :
            /\ ws[k].active
            /\ \A m \in (k + 1)..Len(ws) : ~ws[m].active
    ELSE 0

\* windows.iter().find(|w| w.active): its position, 0 if there is none
ActiveWindow(ws) ==
    IF \E k \in 1..Len(ws) : ws[k].active
    THEN CHOOSE k \in 1..Len(ws) :
            /\ ws[k].active
            /\ \A m \in 1..(k - 1) : ~ws[m].active
    ELSE 0

\* where restore continues once it is through with window i
AfterWindow(i) ==
    IF i < Len(windows) THEN At("r_new_window", i + 1, 1)
    ELSE IF ActiveWindow(windows) # 0 THEN At("r_select_window", i, 1)
    ELSE At("r_attach", i, 1)

\* where restore continues after the select-layout of window i > 1
AfterLayout(i) ==
    IF ActivePaneFrom(windows[i], 1) # 0
    THEN At("r_select_pane", i, ActivePaneFrom(windows[i], 1))
    ELSE AfterWindow(i)

\* one child of restore: every one is run with .output().context(..)?, so
\* only a child that cannot be started ends restore
RestoreChild(cmd, next) ==
    \E o \in Children(cmd) :
       /\ Ran(cmd, "restore_tmux_session", o)
       /\ IF ~o.launched
          THEN /\ ReturnFromRestore("SpawnFailed")
               /\ UNCHANGED <<wi, pi>>
          ELSE /\ Goto(next)
               /\ UNCHANGED <<restore_result, result>>

\* lines 53-126: the existence check, the read, the parse, the dry run
restore_read ==
    /\ pc = "restore_read"
    /\ LET parsed == ParseWindows(file.lines)
       IN  IF ~file.exists
           THEN ReturnFromRestore("NoSavedSession") /\ UNCHANGED restoring
           ELSE IF ~file.readable
           THEN ReturnFromRestore("ReadFailed") /\ UNCHANGED restoring
           ELSE IF parsed = <<>>
           THEN ReturnFromRestore("NoWindows") /\ UNCHANGED restoring
           ELSE IF dry_run
           THEN /\ ReturnFromRestore("ok")
                /\ windows' = parsed
                /\ UNCHANGED <<wi, pi>>
           ELSE /\ windows' = parsed
                /\ Goto(At("r_new_session", 1, 1))
                /\ UNCHANGED <<restore_result, result>>
    /\ UNCHANGED <<invocation, observed, file, writes, tmux, saving, calls, faults>>

\* lines 128-142: new-session -d -s <session> -n <first window's name>
r_new_session ==
    /\ pc = "r_new_session"
    /\ RestoreChild(Cmd("new-session", RestoreSession, first_window.name),
                    IF Len(first_window.panes) > 1
                    THEN At("r_first_split", 1, 2)
                    ELSE At("r_first_layout", 1, 1))
    /\ UNCHANGED <<invocation, observed, file, writes, windows, saving>>

\* lines 144-156: split-window -t <session>:0 for the first window's panes
\* after the first
r_first_split ==
    /\ pc = "r_first_split"
    /\ RestoreChild(Cmd("split-window", RestoreSession \o <<":", "0">>,
                        first_window.panes[pi].current_path),
                    IF pi < Len(first_window.panes)
                    THEN At("r_first_split", 1, pi + 1)
                    ELSE At("r_first_layout", 1, 1))
    /\ UNCHANGED <<invocation, observed, file, writes, windows, saving>>

\* lines 158-167: select-layout -t <session>:0 <first window's layout>
r_first_layout ==
    /\ pc = "r_first_layout"
    /\ RestoreChild(Cmd("select-layout", RestoreSession \o <<":", "0">>,
                        first_window.layout),
                    AfterWindow(1))
    /\ UNCHANGED <<invocation, observed, file, writes, windows, saving>>

\* lines 170-180: new-window -t <session>:<index> -n <name>
r_new_window ==
    /\ pc = "r_new_window"
    /\ RestoreChild(Cmd("new-window", WindowTarget(RestoreSession, windows[wi].index),
                        windows[wi].name),
                    IF Len(windows[wi].panes) > 1
                    THEN At("r_split", wi, 2)
                    ELSE At("r_layout", wi, 1))
    /\ UNCHANGED <<invocation, observed, file, writes, windows, saving>>

\* lines 182-199: split-window -t <session>:<index> -c <path>
r_split ==
    /\ pc = "r_split"
    /\ RestoreChild(Cmd("split-window", WindowTarget(RestoreSession, windows[wi].index),
                        windows[wi].panes[pi].current_path),
                    IF pi < Len(windows[wi].panes)
                    THEN At("r_split", wi, pi + 1)
                    ELSE At("r_layout", wi, 1))
    /\ UNCHANGED <<invocation, observed, file, writes, windows, saving>>

\* lines 201-210: select-layout -t <session>:<index> <layout>
r_layout ==
    /\ pc = "r_layout"
    /\ RestoreChild(Cmd("select-layout", WindowTarget(RestoreSession, windows[wi].index),
                        windows[wi].layout),
                    AfterLayout(wi))
    /\ UNCHANGED <<invocation, observed, file, writes, windows, saving>>

\* lines 212-222: select-pane for each pane of the window marked active
r_select_pane ==
    /\ pc = "r_select_pane"
    /\ RestoreChild(Cmd("select-pane",
                        PaneTarget(RestoreSession, windows[wi].index,
                                   windows[wi].panes[pi].index),
                        <<>>),
                    IF ActivePaneFrom(windows[wi], pi + 1) # 0
                    THEN At("r_select_pane", wi, ActivePaneFrom(windows[wi], pi + 1))
                    ELSE AfterWindow(wi))
    /\ UNCHANGED <<invocation, observed, file, writes, windows, saving>>

\* lines 225-235: select-window for the first window marked active
r_select_window ==
    /\ pc = "r_select_window"
    /\ RestoreChild(Cmd("select-window",
                        WindowTarget(RestoreSession,
                                     windows[ActiveWindow(windows)].index),
                        <<>>),
                    At("r_attach", wi, 1))
    /\ UNCHANGED <<invocation, observed, file, writes, windows, saving>>

\* lines 237-257: switch-client or attach-session; the exit status is not
\* looked at, and restore returns Ok
r_attach ==
    /\ pc = "r_attach"
    /\ LET cmd == Cmd(IF is_inside_tmux THEN "switch-client" ELSE "attach-session",
                      RestoreSession, <<>>)
       IN  \E o \in Children(cmd) :
              /\ Ran(cmd, "restore_tmux_session", o)
              /\ ReturnFromRestore(IF o.launched THEN "ok" ELSE "SpawnFailed")
    /\ UNCHANGED <<invocation, observed, file, writes, restoring, saving>>

(***************************************************************************)
(* save.rs                                                                 *)
(***************************************************************************)
\* Window::from_format_str panics: parts[5] of a five-field line, reached
\* once the index has parsed
from_format_str_panics(format_str) ==
    LET parts == Split(format_str, "\t")
    IN  Len(parts) = 5 /\ ParseU32(parts[3]) # None

\* Window::from_format_str, where it does not panic
from_format_str(format_str) ==
    LET parts == Split(format_str, "\t")
    IN  IF Len(parts) >= 5
        THEN LET index == ParseU32(parts[3])
             IN  IF index = None THEN None
                 ELSE Some([session_name |-> parts[2],
                            index        |-> index[1],
                            name         |-> TrimStartMatches(parts[4], <<":">>),
                            active       |-> parts[5] = <<"1">>,
                            layout       |-> parts[6],
                            panes        |-> <<>>])
        ELSE None

\* Window::get_panes: the pane a line of list-panes describes
PaneOfInfo(pane_info) ==
    LET parts == Split(pane_info, "\t")
    IN  [index           |-> UnwrapOr(ParseU32(parts[6]), 0),
         title           |-> parts[7],
         current_path    |-> TrimStartMatches(parts[8], <<":">>),
         active          |-> parts[9] = <<"1">>,
         current_command |-> parts[10],
         pid             |-> UnwrapOr(ParseU32(parts[11]), 0),
         history_size    |-> UnwrapOr(ParseU32(parts[12]), 0)]

\* where save continues once it is through with line i of session_info
AfterLine(i) == IF i < Len(session_info) THEN "save_window" ELSE "save_write"

\* lines 119-131: list-windows of the current session
save_list_windows ==
    /\ pc = "save_list_windows"
    /\ \E o \in Children(Cmd("list-windows", <<>>, <<>>)) :
          /\ Ran(Cmd("list-windows", <<>>, <<>>), "save_tmux_session", o)
          /\ IF ~o.launched
             THEN Exit("SpawnFailed") /\ UNCHANGED saving
             ELSE IF ~o.success
             THEN Exit("ListWindowsFailed") /\ UNCHANGED saving
             ELSE /\ session_info' = o.out
                  /\ li' = 1
                  /\ content' = <<>>
                  /\ pc' = IF o.out = <<>> THEN "save_write" ELSE "save_window"
                  /\ UNCHANGED <<result, window, pane_list, pj>>
    /\ UNCHANGED <<invocation, observed, file, writes, restoring, restore_result>>

\* lines 135-148 and get_panes lines 45-62: the window of line li, its
\* record, and the list-panes child
save_window ==
    /\ pc = "save_window"
    /\ LET line == session_info[li]
           w    == from_format_str(line)
           cmd  == Cmd("list-panes", WindowTarget(w[1].session_name, w[1].index), <<>>)
       IN  IF from_format_str_panics(line)
           THEN /\ Exit("Panic")
                /\ UNCHANGED <<saving, calls, tmux, faults>>
           ELSE IF w = None
           THEN /\ Exit("ParseWindowFormat")
                /\ UNCHANGED <<saving, calls, tmux, faults>>
           ELSE \E o \in Children(cmd) :
                  /\ Ran(cmd, "get_panes", o)
                  /\ window' = w[1]
                  /\ content' = Append(content, WindowLine(w[1]))
                  /\ UNCHANGED session_info
                  /\ IF ~o.launched
                     THEN Exit("SpawnFailed") /\ UNCHANGED <<li, pane_list, pj>>
                     ELSE LET usable == SelectSeq(o.out,
                                           LAMBDA l : Len(Split(l, "\t")) >= 12)
                          IN  /\ UNCHANGED result
                              /\ IF o.success /\ usable # <<>>
                                 THEN /\ pane_list' = usable
                                      /\ pj' = 1
                                      /\ pc' = "save_capture"
                                      /\ UNCHANGED li
                                 ELSE /\ pc' = AfterLine(li)
                                      /\ li' = li + 1
                                      /\ UNCHANGED <<pane_list, pj>>
    /\ UNCHANGED <<invocation, observed, file, writes, restoring, restore_result>>

\* get_panes lines 66-107 and lines 150-161: capture-pane for the pane of
\* line pj; the pane's record is written only if the child succeeded
save_capture ==
    /\ pc = "save_capture"
    /\ LET pane == PaneOfInfo(pane_list[pj])
           cmd  == Cmd("capture-pane",
                       PaneTarget(window.session_name, window.index, pane.index), <<>>)
       IN  \E o \in Children(cmd) :
              /\ Ran(cmd, "get_panes", o)
              /\ UNCHANGED <<session_info, window, pane_list>>
              /\ IF ~o.launched
                 THEN Exit("SpawnFailed") /\ UNCHANGED <<li, pj, content>>
                 ELSE /\ content' = IF o.success
                                    THEN Append(content, PaneLine(pane))
                                    ELSE content
                      /\ UNCHANGED result
                      /\ IF pj < Len(pane_list)
                         THEN /\ pj' = pj + 1
                              /\ UNCHANGED <<pc, li>>
                         ELSE /\ pc' = AfterLine(li)
                              /\ li' = li + 1
                              /\ UNCHANGED pj
    /\ UNCHANGED <<invocation, observed, file, writes, restoring, restore_result>>

\* lines 164-169: fs::write(save_path, content)
save_write ==
    /\ pc = "save_write"
    /\ file' = [exists |-> TRUE, readable |-> TRUE, lines |-> content]
    /\ writes' = writes + 1
    /\ Exit("ok")
    /\ UNCHANGED <<invocation, observed, tmux, restoring, restore_result, saving, calls, faults>>

(***************************************************************************)
(* The invocations explored: directories, save files and servers.          *)
(***************************************************************************)
Proj == <<"p", "r", "o", "j">>

Other == <<"o", "t", "h">>

DirProj == <<"/", "h", "/">> \o Proj

DirLog == <<"/", "v", "a", "r">>

Edit == <<"e", "d", "i", "t">>

Logs == <<"l", "o", "g", "s">>

L0 == <<"L", "0">>

L1 == <<"L", "1">>

APane(i, active, path) ==
    [index |-> i, title |-> Host, current_path |-> path, active |-> active,
     current_command |-> Shell, pid |-> 100 + i, history_size |-> 0]

AWindow(s, i, name, active, layout, panes) ==
    [session_name |-> s, index |-> i, name |-> name, active |-> active,
     layout |-> layout, panes |-> panes]

\* the lines save.rs writes for the windows ws
RECURSIVE SavedLines(_)
SavedLines(ws) ==
    IF ws = <<>> THEN <<>>
    ELSE <<WindowLine(Head(ws))>>
         \o [k \in 1..Len(Head(ws).panes) |-> PaneLine(Head(ws).panes[k])]
         \o SavedLines(Tail(ws))

OnePane == <<APane(0, TRUE, DirProj)>>

TwoPanes == <<APane(0, TRUE, DirProj), APane(1, FALSE, DirLog)>>

\* a window record with an unparsable index, and one without its layout
BadIndexLine == WindowTag \o Proj \o <<":", "x", " ", "(", "a", ")", " ", "0", " ">> \o L0

ShortLine == WindowTag \o Proj \o <<":", "2", " ", "(", "a", ")", " ", "1">>

SessionFiles ==
    { \* one window, one pane
      SavedLines(<<AWindow(Proj, 0, Edit, TRUE, L0, OnePane)>>),
      \* window 0 with one pane, window 1 active with two
      SavedLines(<<AWindow(Proj, 0, Edit, FALSE, L0, OnePane),
                   AWindow(Proj, 1, Logs, TRUE, L1, TwoPanes)>>),
      \* window 0 with two panes
      SavedLines(<<AWindow(Proj, 0, Edit, TRUE, L1, TwoPanes)>>),
      \* two windows marked active
      SavedLines(<<AWindow(Proj, 0, Edit, FALSE, L0, OnePane),
                   AWindow(Proj, 1, Logs, TRUE, L0, OnePane),
                   AWindow(Proj, 2, Edit, TRUE, L0, OnePane)>>),
      \* no window marked active
      SavedLines(<<AWindow(Proj, 0, Edit, FALSE, L0, OnePane),
                   AWindow(Proj, 1, Logs, FALSE, L0, OnePane)>>),
      \* the first record is not window 0, and the records are out of order
      SavedLines(<<AWindow(Proj, 2, Logs, TRUE, L1, TwoPanes),
                   AWindow(Proj, 1, Edit, FALSE, L0, OnePane)>>),
      \* the records name another session
      SavedLines(<<AWindow(Other, 0, Edit, TRUE, L0, OnePane)>>),
      \* a malformed window record among well-formed ones
      <<BadIndexLine, PaneLine(APane(0, TRUE, DirProj))>>
         \o SavedLines(<<AWindow(Proj, 0, Edit, TRUE, L0, OnePane)>>),
      SavedLines(<<AWindow(Proj, 0, Edit, TRUE, L0, OnePane)>>) \o <<ShortLine>>,
      \* nothing but a malformed window record
      <<ShortLine>>,
      \* an empty file
      <<>> }

Files ==
    {[exists |-> FALSE, readable |-> FALSE, lines |-> <<>>],
     [exists |-> TRUE, readable |-> FALSE, lines |-> <<>>]}
    \cup {[exists |-> TRUE, readable |-> TRUE, lines |-> f] : f \in SessionFiles}

\* a parsed window as the live window of the same structure
LiveWindow(w) ==
    [index |-> w.index, name |-> w.name, active |-> w.active, layout |-> w.layout,
     panes |-> w.panes]

RECURSIVE SortedByIndex(_)
SortedByIndex(ws) ==
    IF ws = <<>> THEN <<>> ELSE InsertWindow(SortedByIndex(Tail(ws)), Head(ws))

\* the session that has exactly the windows and panes the file f describes
Matching(f) ==
    LET parsed == ParseWindows(f.lines)
    IN  SortedByIndex([k \in 1..Len(parsed) |-> LiveWindow(parsed[k])])

Fresh == <<NewWindow(0, Shell, DirProj)>>

\* a session with a window the save files do not describe
Stale == <<NewWindow(0, Shell, DirProj),
           [NewWindow(3, Logs, DirLog) EXCEPT !.active = FALSE]>>

\* the states of the directory's session before the invocation: absent
\* (the empty sequence of windows), or one of the above
ProjSessions(f) ==
    {<<>>, Fresh, Stale} \cup (IF Matching(f) # <<>> THEN {Matching(f)} ELSE {})

Server(inside, proj) ==
    LET names == (IF inside # None THEN {Other} ELSE {})
                 \cup (IF proj # <<>> THEN {Proj} ELSE {})
    IN  [sessions |-> [x \in names |-> IF x = Proj THEN proj ELSE Fresh],
         recent   |-> inside]

Init ==
    /\ verb \in {"save", "restore", "default"}
    /\ dry_run \in BOOLEAN
    /\ TMUX \in {None, Some(Other)}
    /\ session_name = Proj
    /\ dir = DirProj
    /\ file \in Files
    /\ writes = 0
    /\ \E proj \in ProjSessions(file) : tmux = Server(TMUX, proj)
    /\ tmux0 = tmux
    /\ pc = "main"
    /\ windows = <<>>
    /\ wi = 1
    /\ pi = 1
    /\ restore_result = "none"
    /\ session_info = <<>>
    /\ li = 1
    /\ content = <<>>
    /\ window = AWindow(<<>>, 0, <<>>, FALSE, <<>>, <<>>)
    /\ pane_list = <<>>
    /\ pj = 1
    /\ calls = <<>>
    /\ faults = 0
    /\ result = "running"
    /\ observed = None

Next ==
    \/ main
    \/ session_exists
    \/ new_tmux_session
    \/ switch_to_session
    \/ restore_read
    \/ r_new_session
    \/ r_first_split
    \/ r_first_layout
    \/ r_new_window
    \/ r_split
    \/ r_layout
    \/ r_select_pane
    \/ r_select_window
    \/ r_attach
    \/ save_list_windows
    \/ save_window
    \/ save_capture
    \/ save_write

Spec == Init /\ [][Next]_vars

(***************************************************************************)
(* A save followed by a dry-run restore of what it wrote.                  *)
(***************************************************************************)
\* the user runs the tool again, as `restore -n`, after a successful save
Reinvoke ==
    /\ pc = "done"
    /\ verb = "save"
    /\ result = "ok"
    /\ verb' = "restore"
    /\ dry_run' = TRUE
    /\ pc' = "main"
    /\ result' = "running"
    /\ calls' = <<>>
    /\ tmux0' = tmux
    /\ UNCHANGED <<TMUX, session_name, dir, file, writes, tmux, restoring,
                   restore_result, saving, faults, observed>>

MyWin == <<"m", "y", " ", "w", "i", "n">>

Paren == <<"(", "a", ")">>

MyTitle == <<"m", "y", " ", "t">>

DirSpaced == <<"/", "h", "/", "m", "y", " ", "p">>

\* live sessions of one window whose names, titles and paths may hold
\* spaces and parentheses
RoundTripSessions ==
    { <<[index |-> i, name |-> name, active |-> TRUE, layout |-> L1,
         panes |-> <<[APane(0, FALSE, path0) EXCEPT !.title = title],
                     APane(1, TRUE, DirLog)>>]>> :
        i \in {0, 12}, name \in {Edit, MyWin, Paren, <<>>},
        title \in {Host, MyTitle, <<>>}, path0 \in {DirProj, DirSpaced} }

InitRoundTrip ==
    /\ verb = "save"
    /\ dry_run = FALSE
    /\ TMUX = Some(Proj)
    /\ session_name = Proj
    /\ dir = DirProj
    /\ file = [exists |-> FALSE, readable |-> FALSE, lines |-> <<>>]
    /\ writes = 0
    /\ \E live \in RoundTripSessions :
          tmux = [sessions |-> [x \in {Proj} |-> live], recent |-> Some(Proj)]
    /\ tmux0 = tmux
    /\ pc = "main"
    /\ windows = <<>>
    /\ wi = 1
    /\ pi = 1
    /\ restore_result = "none"
    /\ session_info = <<>>
    /\ li = 1
    /\ content = <<>>
    /\ window = AWindow(<<>>, 0, <<>>, FALSE, <<>>, <<>>)
    /\ pane_list = <<>>
    /\ pj = 1
    /\ calls = <<>>
    /\ faults = MaxFaults
    /\ result = "running"
    /\ observed = None

NextRoundTrip ==
    \/ main
    \/ save_list_windows
    \/ save_window
    \/ save_capture
    \/ save_write
    \/ Reinvoke
    \/ restore_read
    \/ switch_to_session

SpecRoundTrip == InitRoundTrip /\ [][NextRoundTrip]_vars

(***************************************************************************)
(* Properties.                                                             *)
(***************************************************************************)
SwitchOps == {"switch-client", "attach-session"}

CreateOps == {"new-session", "new-window", "split-window"}

\* the operations that change the multiplexer or the terminal's attachment
WriteOps ==
    CreateOps \cup SwitchOps
    \cup {"select-layout", "select-pane", "select-window", "kill-window"}

SaveFunctions == {"save_tmux_session", "get_panes"}

CallsBy(fs) == {i \in 1..Len(calls) : calls[i].by \in fs}

CallsOf(ops) == {i \in 1..Len(calls) : calls[i].op \in ops}

Succeeded(i) == calls[i].launched /\ calls[i].success

\* the default verb, not a dry run, and has-session answered yes / no
ExistingBranch ==
    /\ verb = "default" /\ ~dry_run
    /\ Len(calls) >= 1 /\ calls[1].launched /\ calls[1].success

CreatedBranch ==
    /\ verb = "default" /\ ~dry_run
    /\ Len(calls) >= 1 /\ calls[1].launched /\ ~calls[1].success

\* C1: when has_session answers yes, the default verb issues nothing but the
\* switch to the session: no new-session, no restore, no snapshot, and the
\* save file is not written.
C1_DefaultDispatch ==
    ExistingBranch =>
       /\ Len(calls) <= 2
       /\ Len(calls) = 2 =>
             /\ calls[2].by = "switch_to_session"
             /\ calls[2].op \in SwitchOps
             /\ calls[2].t = session_name
       /\ restore_result = "none"
       /\ session_info = <<>>
       /\ writes = 0
       /\ pc \in {"switch_existing", "done"}

C1_Witness ==
    /\ ExistingBranch
    /\ Len(calls) = 2
    /\ pc = "done"
    /\ result = "ok"

\* the step of the default verb that call i belongs to
StepOf(i) ==
    CASE calls[i].by = "new_tmux_session" -> 1
      [] calls[i].by = "restore_tmux_session" -> 2
      [] calls[i].by = "switch_to_session" -> 3
      [] calls[i].by \in SaveFunctions -> 4
      [] OTHER -> 0

\* C2: when has_session answers no, the default verb issues new_session,
\* restore, switch_to, snapshot in this order, snapshot only after a
\* successful switch_to, and a failed new_session or switch_to is the last
\* thing the run does.
C2_DefaultOrdering ==
    CreatedBranch =>
       /\ Len(calls) >= 2 => StepOf(2) = 1
       /\ \A i, j \in 2..Len(calls) : i < j => StepOf(i) <= StepOf(j)
       /\ \A j \in 2..Len(calls) :
             StepOf(j) = 4 => \E i \in 2..(j - 1) : StepOf(i) = 3 /\ Succeeded(i)
       /\ \A i \in 2..Len(calls) :
             (StepOf(i) \in {1, 3} /\ ~Succeeded(i)) =>
                /\ i = Len(calls)
                /\ pc = "done"
                /\ StepOf(i) = 1 => restore_result = "none"

C4_MissingSaveFile ==
    (verb = "restore" /\ ~file.exists /\ faults = 0) =>
       /\ calls = <<>>
       /\ pc = "done" => result = "NoSavedSession"

\* C5: the restore verb as a dry run issues no operation that changes the
\* multiplexer or the terminal's attachment, and succeeds once the file
\* has printed the parsed windows (stated for the runs in which the file
\* parses and no child failure is injected).
C5_DryRunRestore ==
    (verb = "restore" /\ dry_run /\ restore_result = "ok" /\ faults = 0) =>
       /\ CallsOf(WriteOps) = {}
       /\ pc = "done" => result = "ok"

\* the indices other than 0 of the windows the directory's session had
\* when the invocation began
StaleIndices ==
    IF HasSession(tmux0, session_name)
    THEN {tmux0.sessions[session_name][k].index :
            k \in 1..Len(tmux0.sessions[session_name])} \ {0}
    ELSE {}

RestoreCreates == CallsBy({"restore_tmux_session"}) \cap CallsOf(CreateOps)

\* C6: before it creates anything restore has issued kill-window for every
\* window of the session whose index is not 0, and kill-window is never
\* issued for window 0 (the first part stated for the save files that name
\* the directory's session and the runs in which no child failure is
\* injected).
C6_StaleWindowPurge ==
    /\ (faults = 0 /\ windows # <<>> /\ windows[1].session_name = session_name) =>
          \A c \in RestoreCreates : \A idx \in StaleIndices :
             \E j \in 1..(c - 1) :
                /\ calls[j].op = "kill-window"
                /\ calls[j].t = WindowTarget(session_name, idx)
    /\ \A i \in CallsOf({"kill-window"}) : ParseTarget(calls[i].t).window # Some(0)

\* the window indices of session s with the number of panes of each
Structure(st, s) ==
    IF HasSession(st, s)
    THEN {<<st.sessions[s][k].index, Len(st.sessions[s][k].panes)>> :
            k \in 1..Len(st.sessions[s])}
    ELSE {}

\* the same, of the windows a save file describes
FileStructure(lines) ==
    {<<ParseWindows(lines)[k].index, Len(ParseWindows(lines)[k].panes)>> :
        k \in 1..Len(ParseWindows(lines))}

\* the session had, when the invocation began, exactly the windows and
\* the pane counts the save file describes
MatchedAtStart ==
    /\ file.exists /\ file.readable
    /\ ParseWindows(file.lines) # <<>>
    /\ \A k \in 1..Len(ParseWindows(file.lines)) :
          ParseWindows(file.lines)[k].session_name = session_name
    /\ Structure(tmux0, session_name) = FileStructure(file.lines)

\* C7: restore run on a session that already matches the save file leaves
\* the windows and the number of panes of each unchanged.
C7_RestoreIdempotent ==
    (verb = "restore" /\ ~dry_run /\ MatchedAtStart /\ faults = 0) =>
       Structure(tmux, session_name) = Structure(tmux0, session_name)

\* C8: restore issues select-window at most once, only for the first
\* window record marked active, never when no record is marked active,
\* and always by the time it hands over the terminal when one is.
C8_ActiveSelection ==
    /\ Cardinality(CallsOf({"select-window"})) <= 1
    /\ \A i \in CallsOf({"select-window"}) :
          \E k \in 1..Len(windows) :
             /\ windows[k].active
             /\ \A m \in 1..(k - 1) : ~windows[m].active
             /\ calls[i].t = WindowTarget(windows[1].session_name, windows[k].index)
    /\ (/\ CallsBy({"restore_tmux_session"}) \cap CallsOf(SwitchOps) # {}
        /\ \E k \in 1..Len(windows) : windows[k].active)
          => CallsOf({"select-window"}) # {}

C8_Witness ==
    /\ CallsOf({"select-window"}) # {}
    /\ Cardinality({k \in 1..Len(windows) : windows[k].active}) >= 2
    /\ pc = "done"

\* the windows of live session s as the records a parse should give
LiveAsWindows(st, s) ==
    [k \in 1..Len(st.sessions[s]) |->
        [session_name |-> s,
         index        |-> st.sessions[s][k].index,
         name         |-> st.sessions[s][k].name,
         active       |-> st.sessions[s][k].active,
         layout       |-> st.sessions[s][k].layout,
         panes        |-> st.sessions[s][k].panes]]

\* C9: parsing what save wrote gives back the windows and panes of the
\* saved session, whatever spaces and parentheses their names, titles and
\* paths hold.
C9_CodecRoundTrip ==
    (verb = "restore" /\ restore_result # "none") =>
       /\ restore_result = "ok"
       /\ windows = LiveAsWindows(tmux, session_name)

HasMalformedRecord ==
    \E i \in 1..Len(file.lines) : file.lines[i] \in {BadIndexLine, ShortLine}

\* C10: a save file with a malformed window record makes restore fail
\* (with whatever error) without running any child, whatever other records
\* the file holds: the record is never dropped silently.
C10_MalformedRecord ==
    (verb = "restore" /\ ~dry_run /\ file.exists /\ file.readable
        /\ HasMalformedRecord /\ faults = 0) =>
       /\ CallsBy({"restore_tmux_session"}) = {}
       /\ restore_result # "ok"
       /\ pc = "done" => result # "ok"

(***************************************************************************)
(* A save while a restore in another process reads save_path.  Here        *)
(* std::fs::write is taken apart into the system calls it makes.           *)
(***************************************************************************)
\* fs::write, File::create: save_path is created, or truncated to nothing
fs_write_create ==
    /\ pc = "save_write"
    /\ file' = [exists |-> TRUE, readable |-> TRUE, lines |-> <<>>]
    /\ pc' = "fs_write_all"
    /\ UNCHANGED <<invocation, observed, writes, tmux, restoring, restore_result,
                   saving, calls, faults, result>>

\* fs::write, write_all: one write(2) after the other, each taking some of
\* what is left of content; then save_tmux_session returns Ok
fs_write_all ==
    /\ pc = "fs_write_all"
    /\ IF Len(file.lines) < Len(content)
       THEN /\ \E n \in (Len(file.lines) + 1)..Len(content) :
                  file' = [file EXCEPT !.lines = SubSeq(content, 1, n)]
            /\ UNCHANGED <<pc, result, writes>>
       ELSE /\ writes' = writes + 1
            /\ Exit("ok")
            /\ UNCHANGED file
    /\ UNCHANGED <<invocation, observed, tmux, restoring, restore_result, saving,
                   calls, faults>>

\* restore_tmux_session in another process, lines 55-60: save_path.exists()
\* and fs::read_to_string(save_path), while this invocation is running
concurrent_restore_read ==
    /\ pc # "done"
    /\ observed = None
    /\ observed' = Some(file)
    /\ UNCHANGED <<invocation, file, writes, tmux, pc, restoring, restore_result,
                   saving, calls, faults, result>>

NoFile == [exists |-> FALSE, readable |-> FALSE, lines |-> <<>>]

\* the save file before the save: none, or what an earlier save wrote
PreviousFiles ==
    {NoFile,
     [exists |-> TRUE, readable |-> TRUE,
      lines |-> SavedLines(<<AWindow(Proj, 0, Logs, TRUE, L0, OnePane)>>)]}

\* the sessions saved: one window, or two
ConcurrentSessions ==
    {<<[index |-> 0, name |-> Edit, active |-> TRUE, layout |-> L1, panes |-> TwoPanes]>>,
     <<[index |-> 0, name |-> Edit, active |-> FALSE, layout |-> L0, panes |-> OnePane],
       [index |-> 1, name |-> Logs, active |-> TRUE, layout |-> L1, panes |-> TwoPanes]>>}

InitConcurrent ==
    /\ verb = "save"
    /\ dry_run = FALSE
    /\ TMUX = Some(Proj)
    /\ session_name = Proj
    /\ dir = DirProj
    /\ file \in PreviousFiles
    /\ writes = 0
    /\ \E live \in ConcurrentSessions :
          tmux = [sessions |-> [x \in {Proj} |-> live], recent |-> Some(Proj)]
    /\ tmux0 = tmux
    /\ pc = "main"
    /\ windows = <<>>
    /\ wi = 1
    /\ pi = 1
    /\ restore_result = "none"
    /\ session_info = <<>>
    /\ li = 1
    /\ content = <<>>
    /\ window = AWindow(<<>>, 0, <<>>, FALSE, <<>>, <<>>)
    /\ pane_list = <<>>
    /\ pj = 1
    /\ calls = <<>>
    /\ faults = MaxFaults
    /\ result = "running"
    /\ observed = None

NextConcurrent ==
    \/ main
    \/ save_list_windows
    \/ save_window
    \/ save_capture
    \/ fs_write_create
    \/ fs_write_all
    \/ concurrent_restore_read

SpecConcurrent == InitConcurrent /\ [][NextConcurrent]_vars

\* the complete file this save writes
NewFile == [exists |-> TRUE, readable |-> TRUE, lines |-> content]

\* C11: a restore in another process that reads save_path while a save runs
\* finds the complete previous file or the complete new one, never a
\* truncated or partly written one.
C11_AtomicSnapshotWrite ==
    observed # None =>
       \/ observed[1] \in PreviousFiles
       \/ /\ pc \in {"fs_write_all", "done"}
          /\ observed[1] = NewFile

\* the window records of a file that no pane record follows
PanelessRecords(lines) ==
    {i \in 1..Len(lines) :
        /\ StartsWith(lines[i], WindowTag)
        /\ i = Len(lines) \/ ~StartsWith(lines[i + 1], PaneTag)}

\* C12: when a save has succeeded, every window record of the file it wrote
\* is followed by a pane record, also when list-panes or capture-pane has
\* failed for a window (stated for the runs outside the multiplexer, which
\* save the directory's session).
C12_EveryWindowHasPane ==
    (TMUX = None /\ writes = 1 /\ pc = "done" /\ result = "ok") =>
       PanelessRecords(file.lines) = {}

\* the operations whose exit status is to be checked: every one the program
\* runs to build a session
CheckedOps ==
    {"new-session", "new-window", "split-window", "select-layout", "select-pane",
     "select-window"}

\* C13: a child of one of these operations that runs and exits non-zero is
\* the last child the invocation runs, and the invocation does not end in
\* success (stated for the runs in which no child failure is injected: the
\* children that fail are those the multiplexer refuses).
C13_ExitCodeChecked ==
    faults = 0 =>
       \A i \in CallsOf(CheckedOps) :
          (calls[i].launched /\ ~calls[i].success) =>
             /\ i = Len(calls)
             /\ pc = "done" => result # "ok"

(***************************************************************************)
(* session_info.rs: the invocation from get_session_info on, for           *)
(* directories of any name.                                                *)
(***************************************************************************)
\* Path::file_name: the last component of the path; None for the root and
\* for a path that ends in ".."
file_name(path) ==
    LET components == SelectSeq(Split(path, "/"),
                                LAMBDA c : c # <<>> /\ c # <<".">>)
    IN  IF components = <<>> \/ components[Len(components)] = <<".", ".">>
        THEN None
        ELSE Some(components[Len(components)])

\* get_session_info, lines 33-49, dir being the canonical directory of
\* lines 17-31: the session name is the directory's file name as it is
get_session_info ==
    /\ pc = "get_session_info"
    /\ IF file_name(dir) = None
       THEN /\ Exit("NoDirectoryName")
            /\ UNCHANGED session_name
       ELSE /\ session_name' = file_name(dir)[1]
            /\ pc' = "main"
            /\ UNCHANGED result
    /\ UNCHANGED <<verb, dry_run, TMUX, dir, tmux0, observed, file, writes, tmux,
                   restoring, restore_result, saving, calls, faults>>

Root == <<"/">>

DirDotted == <<"/", "h", "/", "a", ".", "b">>

DirColon == <<"/", "h", "/", "a", ":", "b">>

Dirs == {DirProj, Root, DirDotted, DirColon}

InitIdentity ==
    /\ verb \in {"save", "restore", "default"}
    /\ dry_run \in BOOLEAN
    /\ TMUX \in {None, Some(Other)}
    /\ session_name = <<>>
    /\ dir \in Dirs
    /\ file \in Files
    /\ writes = 0
    /\ \E proj \in ProjSessions(file) : tmux = Server(TMUX, proj)
    /\ tmux0 = tmux
    /\ pc = "get_session_info"
    /\ windows = <<>>
    /\ wi = 1
    /\ pi = 1
    /\ restore_result = "none"
    /\ session_info = <<>>
    /\ li = 1
    /\ content = <<>>
    /\ window = AWindow(<<>>, 0, <<>>, FALSE, <<>>, <<>>)
    /\ pane_list = <<>>
    /\ pj = 1
    /\ calls = <<>>
    /\ faults = 0
    /\ result = "running"
    /\ observed = None

NextIdentity ==
    \/ get_session_info
    \/ Next

SpecIdentity == InitIdentity /\ [][NextIdentity]_vars

\* a name the multiplexer cannot take as a session name: none, the empty
\* one, one with a ':' or a '.'
ReservedName(name) ==
    \/ name = None
    \/ name[1] = <<>>
    \/ \E i \in 1..Len(name[1]) : name[1][i] \in {":", "."}

\* C14: in a directory whose last component is empty or holds a ':' or a
\* '.', the invocation runs no child, so passes the name to no multiplexer
\* command, and does not end in success.
C14_ReservedSessionName ==
    ReservedName(file_name(dir)) =>
       /\ calls = <<>>
       /\ pc = "done" => result # "ok"

(***************************************************************************)
(* save.rs from the answer of list-windows on, for answers of any shape,   *)
(* lines cut short included.                                               *)
(***************************************************************************)
\* the first k tab-separated fields of a line
Truncated(line, k) == Join(SubSeq(Split(line, "\t"), 1, k), <<"\t">>)

\* the number of fields of the format save.rs asks list-windows for
WindowFields == 6

TwoWindows ==
    <<[index |-> 0, name |-> Edit, active |-> FALSE, layout |-> L0, panes |-> OnePane],
      [index |-> 1, name |-> Logs, active |-> TRUE, layout |-> L1, panes |-> TwoPanes]>>

\* a line of list-windows whose index field is not a number
BadIndexPrinted ==
    Join(<<<<"w", "i", "n", "d", "o", "w">>, Proj, <<"x">>, <<":">> \o Edit,
           Flag(TRUE), L0>>, <<"\t">>)

\* a line of list-windows, whole or cut after any of its fields
PrintedLines ==
    {Truncated(l, k) :
        l \in {ListWindowsLine(Proj, TwoWindows[1]),
               ListWindowsLine(Proj, TwoWindows[2]), BadIndexPrinted},
        k \in 1..WindowFields}

\* what list-windows printed: one line, or a whole line and another
PrintedOutputs ==
    {<<l>> : l \in PrintedLines}
    \cup {<<ListWindowsLine(Proj, TwoWindows[i]), l>> : i \in 1..2, l \in PrintedLines}

\* save_tmux_session at line 131: list-windows has run and printed
InitListWindows ==
    /\ verb = "save"
    /\ dry_run = FALSE
    /\ TMUX = Some(Proj)
    /\ session_name = Proj
    /\ dir = DirProj
    /\ file = NoFile
    /\ writes = 0
    /\ tmux = [sessions |-> [x \in {Proj} |-> TwoWindows], recent |-> Some(Proj)]
    /\ tmux0 = tmux
    /\ pc = "save_window"
    /\ windows = <<>>
    /\ wi = 1
    /\ pi = 1
    /\ restore_result = "none"
    /\ session_info \in PrintedOutputs
    /\ li = 1
    /\ content = <<>>
    /\ window = AWindow(<<>>, 0, <<>>, FALSE, <<>>, <<>>)
    /\ pane_list = <<>>
    /\ pj = 1
    /\ calls = <<[op |-> "list-windows", t |-> <<>>, a |-> <<>>,
                  by |-> "save_tmux_session", launched |-> TRUE, success |-> TRUE]>>
    /\ faults = MaxFaults
    /\ result = "running"
    /\ observed = None

NextListWindows ==
    \/ save_window
    \/ save_capture
    \/ save_write

SpecListWindows == InitListWindows /\ [][NextListWindows]_vars

\* some line of list-windows has fewer fields than the format asks for
HasShortLine ==
    \E i \in 1..Len(session_info) : Len(Split(session_info[i], "\t")) < WindowFields

\* C15: when a line of list-windows has fewer fields than asked for, the
\* save ends with the error of a line it cannot parse: it does not panic,
\* and it writes no file.
C15_MalformedListWindows ==
    HasShortLine =>
       /\ writes = 0
       /\ file = NoFile
       /\ pc = "done" => result = "ParseWindowFormat"

(***************************************************************************)
(* The parse of restore.rs on save files with additions: blank lines,      *)
(* lines with no tag, a pane record before the first window record, one    *)
(* more field at the end of a record.                                      *)
(***************************************************************************)
\* a pane with some history
HistoryPane == [APane(1, FALSE, DirLog) EXCEPT !.history_size = 7]

BaseFiles ==
    {SavedLines(<<AWindow(Proj, 0, Edit, TRUE, L1, <<APane(0, TRUE, DirProj), HistoryPane>>),
                  AWindow(Proj, 1, Logs, FALSE, L0, OnePane)>>),
     SavedLines(<<AWindow(Proj, 0, Edit, TRUE, L0, OnePane)>>)}

Note == <<"n", "o", "t", "e">>

Extra == <<" ", "x">>

\* the lines with one more line after position pos
InsertAt(lines, pos, line) ==
    SubSeq(lines, 1, pos) \o <<line>> \o SubSeq(lines, pos + 1, Len(lines))

\* a base file, as it is or with one addition
WithAddition(f) ==
    {f, InsertAt(f, 0, PaneLine(HistoryPane))}
    \cup {InsertAt(f, pos, <<>>) : pos \in 0..Len(f)}
    \cup {InsertAt(f, pos, Note) : pos \in 0..Len(f)}
    \cup {[f EXCEPT ![pos] = @ \o Extra] : pos \in 1..Len(f)}

CodecFiles == UNION {WithAddition(f) : f \in BaseFiles}

InitCodec ==
    /\ verb \in {"restore", "default"}
    /\ dry_run = TRUE
    /\ TMUX \in {None, Some(Other)}
    /\ session_name = Proj
    /\ dir = DirProj
    /\ \E f \in CodecFiles : file = [exists |-> TRUE, readable |-> TRUE, lines |-> f]
    /\ writes = 0
    /\ tmux = Server(TMUX, Fresh)
    /\ tmux0 = tmux
    /\ pc = "main"
    /\ windows = <<>>
    /\ wi = 1
    /\ pi = 1
    /\ restore_result = "none"
    /\ session_info = <<>>
    /\ li = 1
    /\ content = <<>>
    /\ window = AWindow(<<>>, 0, <<>>, FALSE, <<>>, <<>>)
    /\ pane_list = <<>>
    /\ pj = 1
    /\ calls = <<>>
    /\ faults = MaxFaults
    /\ result = "running"
    /\ observed = None

NextCodec ==
    \/ main
    \/ restore_read
    \/ switch_to_session

SpecCodec == InitCodec /\ [][NextCodec]_vars

\* a record without the fields after its last one: four for a window
\* record, seven for a pane record
WithoutExtraFields(line) ==
    IF StartsWith(line, WindowTag)
    THEN LET parts == SplitWhitespace(Drop(line, Len(WindowTag)))
         IN  WindowTag \o Join(SubSeq(parts, 1, IF Len(parts) < 4 THEN Len(parts) ELSE 4),
                               <<" ">>)
    ELSE LET parts == Split(Drop(line, Len(PaneTag)), " ")
         IN  PaneTag \o Join(SubSeq(parts, 1, IF Len(parts) < 7 THEN Len(parts) ELSE 7),
                             <<" ">>)

\* the file with the additions removed: the records only, from the first
\* window record on, each without extra fields
Stripped(lines) ==
    LET records == SelectSeq(lines, LAMBDA l : StartsWith(l, WindowTag)
                                               \/ StartsWith(l, PaneTag))
        first   == IF \E i \in 1..Len(records) : StartsWith(records[i], WindowTag)
                   THEN CHOOSE i \in 1..Len(records) :
                           /\ StartsWith(records[i], WindowTag)
                           /\ \A j \in 1..(i - 1) : ~StartsWith(records[j], WindowTag)
                   ELSE Len(records) + 1
    IN  [i \in 1..(Len(records) - first + 1) |->
            WithoutExtraFields(records[first + i - 1])]

\* C16: the parse of a file with additions gives the windows and panes
\* that the parse of the file without them gives.
C16_CodecRobustness ==
    restore_result = "ok" => windows = ParseWindows(Stripped(file.lines))

(***************************************************************************)
(* Properties of the calls restore makes window by window.                 *)
(***************************************************************************)
RestoreCalls == CallsBy({"restore_tmux_session"})

PerWindowOps == {"new-window", "split-window", "select-layout", "select-pane"}

\* the position in windows of the window that call i of restore is made
\* for: the first one up to the first new-window, then the next one from
\* each new-window on
WindowOfCall(i) ==
    1 + Cardinality({j \in RestoreCalls \cap CallsOf({"new-window"}) : j <= i})

\* C17: every split-window and select-layout of restore addresses the
\* window by the index its record gives, the first record's included
\* (stated for the runs in which no child failure is injected).
C17_WindowTargets ==
    faults = 0 =>
       \A i \in RestoreCalls \cap CallsOf({"split-window", "select-layout"}) :
          ParseTarget(calls[i].t).window = Some(windows[WindowOfCall(i)].index)

\* the positions of the panes of window w marked active
ActivePanes(w) == {k \in 1..Len(w.panes) : w.panes[k].active}

\* C18: once restore has gone through the file, every window with a pane
\* marked active, the first included, has had a select-pane on such a pane
\* after its select-layout, and every select-pane is on a pane marked
\* active (the first part stated for the save files that name the
\* directory's session and the runs in which no child failure is injected).
C18_ActivePaneSelection ==
    /\ (/\ restore_result = "ok" /\ ~dry_run /\ faults = 0
        /\ windows[1].session_name = session_name) =>
          \A k \in 1..Len(windows) :
             ActivePanes(windows[k]) # {} =>
                \E i \in RestoreCalls \cap CallsOf({"select-pane"}) :
                   /\ WindowOfCall(i) = k
                   /\ \E a \in ActivePanes(windows[k]) :
                         calls[i].t = PaneTarget(windows[1].session_name, windows[k].index,
                                                 windows[k].panes[a].index)
                   /\ \E j \in RestoreCalls \cap CallsOf({"select-layout"}) :
                         j < i /\ WindowOfCall(j) = k
    /\ \A i \in RestoreCalls \cap CallsOf({"select-pane"}) :
          \E a \in ActivePanes(windows[WindowOfCall(i)]) :
             ParseTarget(calls[i].t).pane = Some(windows[WindowOfCall(i)].panes[a].index)

\* C19: the calls restore makes window by window come in ascending order
\* of the windows' indices, whatever the order of the records in the file
\* (stated for the runs in which no child failure is injected).
C19_AscendingWindowOrder ==
    faults = 0 =>
       \A i, j \in RestoreCalls \cap CallsOf(PerWindowOps) :
          i < j => windows[WindowOfCall(i)].index <= windows[WindowOfCall(j)].index

\* the window records of a file that name a session other than s
ForeignRecords(lines, s) ==
    {i \in 1..Len(lines) :
        /\ StartsWith(lines[i], WindowTag)
        /\ ~StartsWith(lines[i], WindowTag \o s \o <<":">>)}

\* C20: when a save has succeeded, every window record of the file it wrote
\* names the directory's session, whatever sessions exist and also when the
\* save follows the switch of the default verb (stated for the runs in
\* which no child failure is injected).
C20_SnapshotOwnSession ==
    (writes = 1 /\ pc = "done" /\ result = "ok" /\ faults = 0) =>
       ForeignRecords(file.lines, session_name) = {}

\* C21: every child restore runs names or targets the directory's session,
\* whatever session the records of the save file name (stated for the runs
\* in which no child failure is injected).
C21_RestoreOwnSession ==
    faults = 0 =>
       \A i \in RestoreCalls : ParseTarget(calls[i].t).session = session_name

\* C22: a run of the restore verb or of the default verb hands over the
\* terminal at most once: restore's own attach-session / switch-client and
\* those of switch_to_session are at most one child in all (stated for the
\* save files that name the directory's session and the runs in which no
\* child failure is injected).
C22_SingleTerminalTransfer ==
    (/\ verb \in {"restore", "default"} /\ faults = 0
     /\ windows = <<>> \/ windows[1].session_name = session_name) =>
       Cardinality(CallsOf(SwitchOps)) <= 1

====
